---------------------------- MODULE Spec2Model ----------------------------
(***************************************************************************)
(* Model of audio/aidl/vts/VtsHalBassBoostTargetTest.cpp: the parameterized *)
(* fixture BassBoostParamTest (construction, SetUp, the SetAndGetStrength  *)
(* body, TearDown) run over descriptors x kStrengthValues, and the pure    *)
(* range classification isTagInRange / isStrengthInRange.                  *)
(*                                                                         *)
(* The effect service is an external collaborator: every status, handle    *)
(* and parameter it returns is an input of the action that calls it.       *)
(* `log` is the history of the calls the fixture issues in the current     *)
(* case, in issue order, each with the status the callee returned.         *)
(***************************************************************************)
EXTENDS Integers, Sequences, FiniteSets

VARIABLES
    caseIdx,        \* index of the running case in descriptors x kStrengthValues
    pc,             \* position of the running case
    mFactory,       \* fixture field: "null" or "factory"
    mEffect,        \* fixture field: "null" or "effect"
    mParamStrength, \* fixture field: the strength value of the case
    mTags,          \* fixture field: pending (tag, BassBoost) pairs
    it,             \* position of the loop of SetAndGetBassBoostParameters in mTags
    log,            \* calls issued by the case so far
    failures,       \* assertion failures recorded by the case so far
    valid,          \* last iteration: result of isTagInRange
    expected,       \* last iteration: expected status
    expectParam,    \* last iteration: envelope passed to setParameter
    getParam,       \* last iteration: envelope returned by getParameter
    rPc,            \* range check: position
    rMin,           \* range check: lower bound of the sweep under study
    rMax,           \* range check: upper bound of the sweep under study
    rCap,           \* range check: capability.strengthSupported
    rV,             \* range check: candidate value
    rRes,           \* range check: result of isTagInRange for rV
    rSweep,         \* range check: the sweep built from rMin, rMax
    rOut            \* range check: classification of each sweep entry

fvars == <<caseIdx, pc, mFactory, mEffect, mParamStrength, mTags, it, log,
           failures, valid, expected, expectParam, getParam>>
rvars == <<rPc, rMin, rMax, rCap, rV, rRes, rSweep, rOut>>
vars == <<fvars, rvars>>

---------------------------------------------------------------------------
\* Bounds of the model.

\* Number of effect descriptors the factory enumerates.
NumDescriptors == 2

\* Half-width of the windows of small integers among the candidate inputs.
MaxSmall == 2

---------------------------------------------------------------------------
\* Integers of the program: int is 32 bits wide.

INT_MAX == 2147483647

INT_MIN == -INT_MAX - 1

MIN_PER_MILLE_STRENGTH == 0

MAX_PER_MILLE_STRENGTH == 1000

\* a + b leaves the range of int.
AddOverflows(a, b) ==
    IF b >= 0 THEN a > INT_MAX - b ELSE a < INT_MIN - b

\* a + b modulo 2^32, computed without leaving the range of int.
WrapAdd(a, b) ==
    IF ~AddOverflows(a, b) THEN a + b
    ELSE IF b >= 0 THEN (a + INT_MIN) + (b + INT_MIN)
    ELSE ((a + INT_MAX) + 1) + ((b + INT_MAX) + 1)

\* What int a + b can evaluate to.  Signed overflow is undefined: the result
\* may be the sum modulo 2^32 (two's complement folding) or the limit of int
\* the sum ran past.
IntAdd(a, b) ==
    IF AddOverflows(a, b)
    THEN {WrapAdd(a, b), IF b >= 0 THEN INT_MAX ELSE INT_MIN}
    ELSE {a + b}

\* x >> 1 on a signed int: arithmetic shift, rounding toward minus infinity.
Shr1(x) == x \div 2

---------------------------------------------------------------------------
\* Statuses (binder exception codes) the service can answer with.

EX_NONE == "EX_NONE"

EX_ILLEGAL_ARGUMENT == "EX_ILLEGAL_ARGUMENT"

EX_ILLEGAL_STATE == "EX_ILLEGAL_STATE"

Statuses == {EX_NONE, EX_ILLEGAL_ARGUMENT, EX_ILLEGAL_STATE}

\* ASSERT_STATUS / EXPECT_STATUS pass exactly when the status is the expected one.
ASSERT_STATUS(exp, status) == status = exp

EXPECT_STATUS(exp, status) == status = exp

---------------------------------------------------------------------------
\* The sweep.

\* Faulty variant: the midpoint taken as half of MAX alone, the lower bound dropped.
kStrengthValuesForHalfMax(mn, mx) ==
    { <<INT_MIN, e2, mn, Shr1(mx), mx, e6, INT_MAX>> :
        e2 \in IntAdd(mn, -1), e6 \in IntAdd(mx, 2) }

\* The vectors the initializer of kStrengthValues can produce for the range
\* constants mn, mx (one vector when no entry overflows).
kStrengthValuesFor(mn, mx) ==
    { <<INT_MIN, e2, mn, Shr1(s), mx, e6, INT_MAX>> :
        e2 \in IntAdd(mn, -1), s \in IntAdd(mn, mx), e6 \in IntAdd(mx, 2) }

kStrengthValues ==
    CHOOSE s \in kStrengthValuesFor(MIN_PER_MILLE_STRENGTH, MAX_PER_MILLE_STRENGTH) : TRUE

\* Combine(descriptors, kStrengthValues): the descriptor varies slowest.
NumCases == NumDescriptors * Len(kStrengthValues)

CaseStrength(i) == kStrengthValues[((i - 1) % Len(kStrengthValues)) + 1]

---------------------------------------------------------------------------
\* Range classification.

\* Faulty variant: the upper limit excluded.
InRangeExclusiveMax(mn, mx, cap, strength) ==
    cap.strengthSupported /\ strength >= mn /\ strength < mx

\* The comparison of isStrengthInRange against range constants mn, mx.
InRange(mn, mx, cap, strength) ==
    cap.strengthSupported /\ strength >= mn /\ strength <= mx

isStrengthInRange(cap, strength) ==
    InRange(MIN_PER_MILLE_STRENGTH, MAX_PER_MILLE_STRENGTH, cap, strength)

isTagInRange(tag, bb, desc) ==
    CASE tag = "strengthPm" -> isStrengthInRange(desc.capability, bb.strengthPm)
      [] OTHER -> FALSE

\* BassBoost union holding strengthPm.
MakeBassBoost(strength) == [tag |-> "strengthPm", strengthPm |-> strength]

MakeDescriptor(supported) == [capability |-> [strengthSupported |-> supported]]

---------------------------------------------------------------------------
\* Parameter envelopes.

\* Parameter holding Parameter::Specific holding the BassBoost union bb.
MakeParam(bb) ==
    [tag |-> "specific", specific |-> [tag |-> "bassBoost", bassBoost |-> bb]]

\* Another strength than v, inside the legal range.
OtherStrength(v) ==
    IF v = MIN_PER_MILLE_STRENGTH THEN MAX_PER_MILLE_STRENGTH ELSE MIN_PER_MILLE_STRENGTH

\* What getParameter can hand back after ep was set: ep itself, or an envelope
\* differing from it in the number, in the BassBoost tag, in the Specific tag
\* or in the Parameter tag.
GetParams(ep) ==
    LET v == ep.specific.bassBoost.strengthPm
    IN  { ep,
          MakeParam(MakeBassBoost(OtherStrength(v))),
          MakeParam([tag |-> "vendor", strengthPm |-> v]),
          [tag |-> "specific",
           specific |-> [tag |-> "equalizer", bassBoost |-> MakeBassBoost(v)]],
          [tag |-> "common",
           specific |-> [tag |-> "bassBoost", bassBoost |-> MakeBassBoost(v)]] }

\* Faulty variant: only the numeric field compared.
ParamEqStrengthOnly(a, b) ==
    a.specific.bassBoost.strengthPm = b.specific.bassBoost.strengthPm

\* EXPECT_EQ(expectParam, getParam): equality of the whole envelope.
ParamEq(a, b) == a = b

NoParam == MakeParam(MakeBassBoost(MIN_PER_MILLE_STRENGTH))

---------------------------------------------------------------------------
\* The calls of one case.

\* One entry of the history: the call, the handle it was made on, the strength
\* it carried (setParameter) and the status it returned.
Call(op, eff, val, st) == [op |-> op, eff |-> eff, val |-> val, st |-> st]

\* Faulty variant: a rejected value is expected to be accepted too.
ExpectedAlwaysNone(v) == EX_NONE

\* expected = valid ? EX_NONE : EX_ILLEGAL_ARGUMENT
Expected(v) == IF v THEN EX_NONE ELSE EX_ILLEGAL_ARGUMENT

\* Faulty variant: the value pushed twice.
addStrengthParamTwice(tags, strength) ==
    tags \o << <<"strengthPm", MakeBassBoost(strength)>>,
               <<"strengthPm", MakeBassBoost(strength)>> >>

addStrengthParam(tags, strength) ==
    Append(tags, <<"strengthPm", MakeBassBoost(strength)>>)

\* The handle create() leaves in mEffect: set only by a successful createEffect.
CreatedEffect(createSt, eff) == IF createSt = EX_NONE THEN eff ELSE "null"

\* create() records a fatal failure unless createEffect answered EX_NONE with a
\* non-null handle.
CreateFatal(createSt, eff) ==
    ~ASSERT_STATUS(EX_NONE, createSt) \/ CreatedEffect(createSt, eff) = "null"

\* open(), close() and destroy() record a fatal failure unless the service
\* answered EX_NONE.
OpenFatal(openSt) == ~ASSERT_STATUS(EX_NONE, openSt)

CloseFatal(closeSt) == ~ASSERT_STATUS(EX_NONE, closeSt)

DestroyFatal(destroySt) == ~ASSERT_STATUS(EX_NONE, destroySt)

\* Faulty variant: the outcome of open() not checked.
SetUpFatalOpenUnchecked(factory, createSt, eff, openSt) ==
    factory = "null" \/ CreateFatal(createSt, eff)

\* SetUp ends with a fatal failure: null factory, create() failed, open()
\* failed, or a null mEffect.
SetUpFatal(factory, createSt, eff, openSt) ==
    \/ factory = "null"
    \/ CreateFatal(createSt, eff)
    \/ OpenFatal(openSt)
    \/ CreatedEffect(createSt, eff) = "null"

\* The calls SetUp issues, in order.
SetUpCalls(factory, createSt, eff, openSt) ==
    IF factory = "null" THEN <<>>
    ELSE <<Call("create", "null", 0, createSt)>> \o
         (IF CreateFatal(createSt, eff) THEN <<>>
          ELSE <<Call("open", CreatedEffect(createSt, eff), 0, openSt)>>)

\* Faulty variant: destroy issued first.
TearDownCallsDestroyFirst(eff, closeSt, destroySt) ==
    <<Call("destroy", eff, 0, destroySt), Call("close", eff, 0, closeSt)>>

\* Faulty variant: destroy issued whatever close() recorded.
TearDownCallsAlwaysDestroy(eff, closeSt, destroySt) ==
    <<Call("close", eff, 0, closeSt), Call("destroy", eff, 0, destroySt)>>

\* The calls TearDown issues, in order: destroy() only when close() recorded
\* no fatal failure.
TearDownCalls(eff, closeSt, destroySt) ==
    <<Call("close", eff, 0, closeSt)>> \o
    (IF CloseFatal(closeSt)
     THEN <<>> ELSE <<Call("destroy", eff, 0, destroySt)>>)

TearDownFailures(closeSt, destroySt) ==
    IF CloseFatal(closeSt) THEN {"TearDown:close"}
    ELSE IF DestroyFatal(destroySt) THEN {"TearDown:destroy"}
    ELSE {}

\* Faulty variant: a mismatch of the set status ends the iteration (ASSERT for EXPECT).
IterationCallsStopOnSetMismatch(eff, bb, exp, setSt, getSt) ==
    <<Call("setParameter", eff, bb.strengthPm, setSt)>> \o
    (IF exp = EX_NONE /\ EXPECT_STATUS(exp, setSt)
     THEN <<Call("getParameter", eff, 0, getSt)>> ELSE <<>>)

\* The calls of one iteration once the descriptor was read: setParameter, then
\* getParameter when the expected status is EX_NONE.
IterationCalls(eff, bb, exp, setSt, getSt) ==
    <<Call("setParameter", eff, bb.strengthPm, setSt)>> \o
    (IF exp = EX_NONE THEN <<Call("getParameter", eff, 0, getSt)>> ELSE <<>>)

---------------------------------------------------------------------------
\* The run of the suite: one case after the other.

RangeIdle ==
    /\ rPc = "off" /\ rMin = MIN_PER_MILLE_STRENGTH /\ rMax = MAX_PER_MILLE_STRENGTH
    /\ rCap = FALSE /\ rV = 0 /\ rRes = FALSE /\ rSweep = <<>> /\ rOut = <<>>

FixtureIdle ==
    /\ caseIdx = 0 /\ pc = "Idle"
    /\ mFactory = "null" /\ mEffect = "null"
    /\ mParamStrength = MIN_PER_MILLE_STRENGTH
    /\ mTags = <<>> /\ it = 1 /\ log = <<>> /\ failures = {}
    /\ valid = FALSE /\ expected = EX_NONE
    /\ expectParam = NoParam /\ getParam = NoParam

Init == FixtureIdle /\ RangeIdle

\* RUN_ALL_TESTS() starts the next case of the instantiation with a fresh
\* fixture, BassBoostParamTest(), its fields taken from GetParam().
Construct(factory) ==
    /\ pc \in {"Idle", "Done"}
    /\ caseIdx < NumCases
    /\ caseIdx' = caseIdx + 1
    /\ mFactory' = factory
    /\ mEffect' = "null"
    /\ mParamStrength' = CaseStrength(caseIdx + 1)
    /\ mTags' = <<>>
    /\ it' = 1
    /\ log' = <<>>
    /\ failures' = {}
    /\ valid' = FALSE
    /\ expected' = EX_NONE
    /\ expectParam' = NoParam
    /\ getParam' = NoParam
    /\ pc' = "SetUp"
    /\ UNCHANGED rvars

\* SetUp(): the body of the test runs only if SetUp recorded no fatal failure;
\* TearDown runs in either case.
SetUp(createSt, eff, openSt) ==
    /\ pc = "SetUp"
    /\ log' = log \o SetUpCalls(mFactory, createSt, eff, openSt)
    /\ mEffect' = IF mFactory = "null" THEN mEffect ELSE CreatedEffect(createSt, eff)
    /\ failures' = failures \cup
          (IF mFactory = "null" THEN {"SetUp:mFactory"}
           ELSE IF CreateFatal(createSt, eff) THEN {"SetUp:create"}
           ELSE IF OpenFatal(openSt) THEN {"SetUp:open"}
           ELSE IF CreatedEffect(createSt, eff) = "null" THEN {"SetUp:mEffect"}
           ELSE {})
    /\ pc' = IF SetUpFatal(mFactory, createSt, eff, openSt)
             THEN "TearDown" ELSE "TestBody"
    /\ UNCHANGED <<caseIdx, mFactory, mParamStrength, mTags, it, valid, expected,
                   expectParam, getParam, rvars>>

\* TEST_P(BassBoostParamTest, SetAndGetStrength): push the case's value, enter
\* the loop of SetAndGetBassBoostParameters.
SetAndGetStrength ==
    /\ pc = "TestBody"
    /\ mTags' = addStrengthParam(mTags, mParamStrength)
    /\ it' = 1
    /\ pc' = IF Len(mTags') = 0 THEN "TearDown" ELSE "Loop"
    /\ UNCHANGED <<caseIdx, mFactory, mEffect, mParamStrength, log, failures, valid,
                   expected, expectParam, getParam, rvars>>

\* One iteration of the loop of SetAndGetBassBoostParameters over mTags.
SetAndGetBassBoostParameters(descSt, supported, setSt, getSt, gp) ==
    /\ pc = "Loop"
    /\ it <= Len(mTags)
    /\ LET tag == mTags[it][1]
           bb == mTags[it][2]
           v == isTagInRange(tag, bb, MakeDescriptor(supported))
           exp == Expected(v)
           ep == MakeParam(bb)
           descCall == <<Call("getDescriptor", mEffect, 0, descSt)>>
       IN  IF ~ASSERT_STATUS(EX_NONE, descSt)
           THEN /\ log' = log \o descCall
                /\ failures' = failures \cup {"getDescriptor"}
                /\ pc' = "TearDown"
                /\ UNCHANGED <<it, valid, expected, expectParam, getParam>>
           ELSE /\ valid' = v
                /\ expected' = exp
                /\ expectParam' = ep
                /\ log' = log \o descCall \o
                          IterationCalls(mEffect, bb, exp, setSt, getSt)
                /\ getParam' = IF exp = EX_NONE THEN gp ELSE NoParam
                /\ failures' = failures
                     \cup (IF EXPECT_STATUS(exp, setSt) THEN {} ELSE {"setParameter"})
                     \cup (IF exp = EX_NONE /\ ~EXPECT_STATUS(exp, getSt)
                           THEN {"getParameter"} ELSE {})
                     \cup (IF exp = EX_NONE /\ ~ParamEq(ep, gp)
                           THEN {"EXPECT_EQ"} ELSE {})
                /\ it' = it + 1
                /\ pc' = IF it + 1 > Len(mTags) THEN "TearDown" ELSE "Loop"
    /\ UNCHANGED <<caseIdx, mFactory, mEffect, mParamStrength, mTags, rvars>>

\* TearDown(): close, then destroy unless close recorded a fatal failure.
TearDown(closeSt, destroySt) ==
    /\ pc = "TearDown"
    /\ log' = log \o TearDownCalls(mEffect, closeSt, destroySt)
    /\ failures' = failures \cup TearDownFailures(closeSt, destroySt)
    /\ pc' = "Done"
    /\ UNCHANGED <<caseIdx, mFactory, mEffect, mParamStrength, mTags, it, valid,
                   expected, expectParam, getParam, rvars>>

NextCase == \E factory \in {"null", "factory"} : Construct(factory)

Next ==
    \/ NextCase
    \/ \E createSt \in Statuses, eff \in {"null", "effect"}, openSt \in Statuses :
          SetUp(createSt, eff, openSt)
    \/ SetAndGetStrength
    \/ \E descSt \in Statuses, supported \in BOOLEAN, setSt \in Statuses,
          getSt \in Statuses, gp \in GetParams(MakeParam(MakeBassBoost(mParamStrength))) :
          SetAndGetBassBoostParameters(descSt, supported, setSt, getSt, gp)
    \/ \E closeSt \in Statuses, destroySt \in Statuses : TearDown(closeSt, destroySt)

Spec == Init /\ [][Next]_vars

---------------------------------------------------------------------------
\* The range check on its own: inputs drawn at the start, then classified.

SmallInts == (-MaxSmall) .. MaxSmall

\* Candidate strengths: the limits of int, the neighbourhoods of both range
\* constants and of the midpoint, small integers.
ValueCands ==
    {INT_MIN, INT_MIN + 1, INT_MAX - 1, INT_MAX}
      \cup SmallInts
      \cup {MIN_PER_MILLE_STRENGTH + d : d \in SmallInts}
      \cup {MAX_PER_MILLE_STRENGTH + d : d \in SmallInts}
      \cup {Shr1(MIN_PER_MILLE_STRENGTH + MAX_PER_MILLE_STRENGTH) + d : d \in SmallInts}

\* Candidate range constants: the program's, small ones, and the ones at which
\* an entry of the sweep leaves the range of int.
BoundCands ==
    {MIN_PER_MILLE_STRENGTH, MAX_PER_MILLE_STRENGTH}
      \cup SmallInts
      \cup {INT_MIN, INT_MIN + 1, -1073741824, 1073741824, INT_MAX - 2, INT_MAX - 1, INT_MAX}

InitRange ==
    /\ FixtureIdle
    /\ rPc = "start"
    /\ rMin \in BoundCands
    /\ rMax \in {m \in BoundCands : rMin <= m}
    /\ rCap \in BOOLEAN
    /\ rV \in ValueCands
    /\ rRes = FALSE
    /\ rSweep = <<>>
    /\ rOut = <<>>

\* isTagInRange on the strength tag, value rV, capability rCap.
Classify ==
    /\ rPc = "start"
    /\ rRes' = isTagInRange("strengthPm", MakeBassBoost(rV), MakeDescriptor(rCap))
    /\ rPc' = "classified"
    /\ UNCHANGED <<fvars, rMin, rMax, rCap, rV, rSweep, rOut>>

\* The initializer of kStrengthValues for range constants rMin, rMax.
BuildSweep ==
    /\ rPc = "classified"
    /\ rSweep' \in kStrengthValuesFor(rMin, rMax)
    /\ rPc' = "swept"
    /\ UNCHANGED <<fvars, rMin, rMax, rCap, rV, rRes, rOut>>

\* Every entry of the sweep classified against rMin, rMax.
ClassifySweep ==
    /\ rPc = "swept"
    /\ rOut' = [i \in 1 .. Len(rSweep) |->
                  InRange(rMin, rMax, [strengthSupported |-> rCap], rSweep[i])]
    /\ rPc' = "done"
    /\ UNCHANGED <<fvars, rMin, rMax, rCap, rV, rRes, rSweep>>

NextRange == Classify \/ BuildSweep \/ ClassifySweep

SpecRange == InitRange /\ [][NextRange]_vars

---------------------------------------------------------------------------
\* Reading the history of the case.

Ops(op) == {i \in 1 .. Len(log) : log[i].op = op}

Issued(op) == Ops(op) # {}

IssuedWith(op, st) == \E i \in Ops(op) : log[i].st = st

Rank(op) ==
    CASE op = "create" -> 1
      [] op = "open" -> 2
      [] op = "getDescriptor" -> 3
      [] op = "setParameter" -> 4
      [] op = "getParameter" -> 5
      [] op = "close" -> 6
      [] op = "destroy" -> 7

BodyOps == {"getDescriptor", "setParameter", "getParameter"}

Mismatches == {"setParameter", "getParameter", "EXPECT_EQ"}

BodyEnded == pc \in {"TearDown", "Done"}

---------------------------------------------------------------------------
\* C1: the range classification (isTagInRange on the strength tag, hence
\* isStrengthInRange) accepts a value exactly when strength is supported and
\* the value lies in [MIN_PER_MILLE_STRENGTH, MAX_PER_MILLE_STRENGTH]; with
\* strength unsupported every value is rejected, MIN and MAX included.
C1_ClassifyIffSupportedInRange ==
    rPc # "start" =>
        /\ rRes <=> (rCap /\ MIN_PER_MILLE_STRENGTH <= rV /\ rV <= MAX_PER_MILLE_STRENGTH)
        /\ rRes = isStrengthInRange([strengthSupported |-> rCap], rV)
        /\ (~rCap => ~rRes)
        /\ (rV < MIN_PER_MILLE_STRENGTH \/ rV > MAX_PER_MILLE_STRENGTH => ~rRes)

\* C1 witness: strength supported, MAX classified and accepted.
C1_Witness ==
    rPc = "classified" /\ rCap /\ rV = MAX_PER_MILLE_STRENGTH /\ rRes

\* C2: the status expected from setParameter is EX_NONE for a value classified
\* Accept and EX_ILLEGAL_ARGUMENT for one classified Reject, and a failure of
\* the set status is recorded exactly when the observed status differs from it.
C2_SetStatusExpectation ==
    \A i \in Ops("setParameter") :
        /\ valid => expected = EX_NONE
        /\ ~valid => expected = EX_ILLEGAL_ARGUMENT
        /\ ("setParameter" \in failures) <=> (log[i].st # expected)

\* C2 witness: a Reject value whose set answered a third status, reported.
C2_Witness ==
    /\ ~valid
    /\ IssuedWith("setParameter", EX_ILLEGAL_STATE)
    /\ "setParameter" \in failures

\* C3: getParameter is issued only right after a setParameter that returned
\* EX_NONE, and never for a value classified Reject.
C3_GetOnlyAfterSuccessfulSet ==
    \A i \in Ops("getParameter") :
        /\ valid
        /\ i > 1
        /\ log[i - 1].op = "setParameter"
        /\ log[i - 1].st = EX_NONE

C5_CallOrder ==
    /\ \A i, j \in 1 .. Len(log) : i < j => Rank(log[i].op) < Rank(log[j].op)
    /\ \A i \in Ops("setParameter") \cup Ops("getParameter") :
          \E j \in Ops("open") : j < i /\ log[j].st = EX_NONE
    /\ \A i \in Ops("getParameter") : \E j \in Ops("setParameter") : j < i
    /\ \A i \in Ops("destroy") : \E j \in Ops("close") : j < i

\* C5 witness: a case that issued all seven calls.
C5_Witness ==
    /\ pc = "Done"
    /\ [i \in 1 .. Len(log) |-> log[i].op] =
          <<"create", "open", "getDescriptor", "setParameter", "getParameter",
            "close", "destroy">>

C8_SetUpFailureSkipsBody ==
    (/\ pc \notin {"Idle", "SetUp"}
     /\ \/ mFactory = "null"
        \/ \E i \in Ops("create") : log[i].st # EX_NONE
        \/ mEffect = "null"
        \/ \E i \in Ops("open") : log[i].st # EX_NONE)
    => (\A i \in 1 .. Len(log) : log[i].op \notin BodyOps)

\* C8 witness: a case that ended after open failed in SetUp.
C8_Witness ==
    /\ pc = "Done"
    /\ IssuedWith("open", EX_ILLEGAL_ARGUMENT)
    /\ "SetUp:open" \in failures

C10_OneSetPerCase ==
    /\ Len(mTags) <= 1
    /\ Cardinality(Ops("setParameter")) <= 1
    /\ Cardinality(Ops("getParameter")) <= 1
    /\ \A i \in Ops("setParameter") :
          log[i].val = mParamStrength /\ log[i].val = CaseStrength(caseIdx)
    /\ BodyEnded =>
          (Cardinality(Ops("setParameter")) = 1
             <=> (/\ IssuedWith("open", EX_NONE)
                  /\ IssuedWith("getDescriptor", EX_NONE)))
    /\ (BodyEnded /\ IssuedWith("open", EX_NONE)) => Issued("getDescriptor")

\* C10 witness: the case of INT_MAX issued its one set and no get.
C10_Witness ==
    /\ pc = "Done"
    /\ \E i \in Ops("setParameter") : log[i].val = INT_MAX
    /\ ~Issued("getParameter")

---------------------------------------------------------------------------
\* No entry of the sweep for range constants mn, mx overflows int.
NoOverflow(mn, mx) ==
    ~AddOverflows(mn, -1) /\ ~AddOverflows(mn, mx) /\ ~AddOverflows(mx, 2)

\* The sweep has seven entries, the fixed ones in their places.
SweepShape ==
    /\ Len(rSweep) = 7
    /\ rSweep[1] = INT_MIN /\ rSweep[3] = rMin /\ rSweep[5] = rMax
    /\ rSweep[7] = INT_MAX

\* With strength supported, MIN = 0 and MAX = 1000 the sweep and its
\* classification are the documented ones.
SweepPinned ==
    (rMin = 0 /\ rMax = 1000 /\ rCap) =>
        /\ rSweep = <<INT_MIN, -1, 0, 500, 1000, 1002, INT_MAX>>
        /\ rSweep = kStrengthValues
        /\ rOut = <<FALSE, FALSE, TRUE, TRUE, TRUE, FALSE, FALSE>>

\* The midpoint entry lies in [MIN, MAX] and is accepted (when strength is
\* supported); MIN-1 and MAX+2 are rejected.
SweepGeneral ==
    /\ rMin <= rSweep[4] /\ rSweep[4] <= rMax
    /\ rOut[4] = rCap
    /\ ~rOut[2] /\ ~rOut[6]

===========================================================================
